---- MODULE Spec2Model ----
(***************************************************************************)
(* Model of the Approve builder of litesvm-token (token/src/approve.rs):  *)
(* construction, the chained configuration methods and the steps of send. *)
(***************************************************************************)
EXTENDS Integers, Sequences, FiniteSets, TLC

(* ------------------------------ bounds --------------------------------- *)
\* longest signer slice handed to multisig
MaxSigners == 2
\* longest chain of configuration calls between new and send
MaxConfig == 2

(* ------------------------------ universe ------------------------------- *)
Keypairs == {"k1", "k2", "k3"}
Payers == {"k1", "k2"}

\* Keypair::pubkey : the public identity of a keypair
pubkey(k) == CASE k = "k1" -> "P1" [] k = "k2" -> "P2" [] OTHER -> "P3"

KeypairPubkeys == {pubkey(k) : k \in Keypairs}
\* identities a caller may name as the multisig owner: an account address
\* nobody holds a key for, or the identity of a keypair
MultisigIds == {"M", "P1", "P2"}
Delegates == {"D", "P1"}
Sources == {"S", "P2"}
Amounts == {0, 50}
TOKEN_ID == "TOKEN"
ProgramIds == {TOKEN_ID, "OTHER"}
\* Hash::default() and a fresh block hash
DefaultHash == "H0"
Hashes == {DefaultHash, "H1"}
None == "None"

RECURSIVE SeqsUpTo(_, _)
SeqsUpTo(S, n) ==
    IF n = 0 THEN {<<>>}
    ELSE LET shorter == SeqsUpTo(S, n - 1)
         IN shorter \cup {Append(s, x) : s \in {t \in shorter : Len(t) = n - 1}, x \in S}

SignerSlices == SeqsUpTo(Keypairs, MaxSigners)

Range(s) == {s[i] : i \in 1..Len(s)}

(* ------------------------------ values --------------------------------- *)
Pending == [kind |-> "pending", err |-> None]
Ok == [kind |-> "Ok", err |-> None]
Err(kind, e) == [kind |-> kind, err |-> e]

NoIx == [program_id |-> None, accounts |-> <<>>, amount |-> 0]
NoArgs == [program_id |-> None, source |-> None, delegate |-> None,
           authority |-> None, signer_keys |-> <<>>, amount |-> 0]
DefaultSignature == [by |-> None, over |-> None]
NoTx == [instructions |-> <<>>, signer_keys |-> <<>>,
         recent_blockhash |-> None, signatures |-> <<>>]

AccountMeta(pk, is_signer, is_writable) ==
    [pubkey |-> pk, is_signer |-> is_signer, is_writable |-> is_writable]

(* ---------------------------- collaborators ---------------------------- *)
\* get_multisig_signers(&authority, &signing_keys): the signer list embedded
\* in the instruction.  A lone signer that is the authority itself signs
\* directly (empty list); any other list is embedded as given.
get_multisig_signers(auth, signing_pubkeys) ==
    IF signing_pubkeys = <<auth>> THEN <<>> ELSE signing_pubkeys

\* spl_token::instruction::approve : rejects a foreign program id, otherwise
\* lists source, delegate, the owner (a signer iff no signer list is embedded)
\* and every embedded signer as a read-only signer.
approve(program_id, source_pubkey, delegate_pubkey, owner_pubkey, signer_pubkeys, amt) ==
    IF program_id # TOKEN_ID
    THEN [res |-> Err("EncodingError", "IncorrectProgramId"), ix |-> NoIx]
    ELSE [res |-> Ok,
          ix  |-> [program_id |-> program_id,
                   accounts |->
                       << AccountMeta(source_pubkey, FALSE, TRUE),
                          AccountMeta(delegate_pubkey, FALSE, FALSE),
                          AccountMeta(owner_pubkey, signer_pubkeys = <<>>, FALSE) >>
                       \o [i \in 1..Len(signer_pubkeys) |->
                              AccountMeta(signer_pubkeys[i], TRUE, FALSE)],
                   amount |-> amt]]

RECURSIVE Dedup(_)
\* keeps the first occurrence of every element
Dedup(s) ==
    IF s = <<>> THEN <<>>
    ELSE LET front == Dedup(SubSeq(s, 1, Len(s) - 1))
             last  == s[Len(s)]
         IN IF last \in Range(front) THEN front ELSE Append(front, last)

\* the identities an instruction requires a signature from
RequiredSigners(instr) ==
    {instr.accounts[i].pubkey : i \in {j \in 1..Len(instr.accounts) : instr.accounts[j].is_signer}}

WritableKeys(instr) ==
    {instr.accounts[i].pubkey : i \in {j \in 1..Len(instr.accounts) : instr.accounts[j].is_writable}}

\* Transaction::new_with_payer(&[ix], Some(&payer)) : the compiled message
\* lists the fee payer first, then the other signers (writable before
\* read-only), each once; no signature yet, default block hash.
new_with_payer(instr, fee_payer) ==
    LET keys == Dedup([i \in 1..Len(instr.accounts) |-> instr.accounts[i].pubkey])
        IsWSigner(pk) == pk # fee_payer /\ pk \in RequiredSigners(instr) /\ pk \in WritableKeys(instr)
        IsRSigner(pk) == pk # fee_payer /\ pk \in RequiredSigners(instr) /\ pk \notin WritableKeys(instr)
        signed == <<fee_payer>> \o SelectSeq(keys, IsWSigner) \o SelectSeq(keys, IsRSigner)
    IN [instructions |-> <<instr>>,
        signer_keys |-> signed,
        recent_blockhash |-> DefaultHash,
        signatures |-> [i \in 1..Len(signed) |-> DefaultSignature]]

\* position of a key among the message's signer keys, 0 when absent
Position(t, pk) ==
    IF \E i \in 1..Len(t.signer_keys) : t.signer_keys[i] = pk
    THEN CHOOSE i \in 1..Len(t.signer_keys) : t.signer_keys[i] = pk
    ELSE 0

\* a keypair's signature over the message as it stands (the block hash is
\* the only part of the message that changes after assembly)
Sign(k, hash) == [by |-> pubkey(k), over |-> hash]

\* Transaction::partial_sign(keypairs, recent_blockhash): panics when a
\* keypair is not a signer of the message; a new block hash clears every
\* earlier signature; then each keypair signs at its position.
partial_sign(t, keypairs, recent_blockhash) ==
    IF \E j \in 1..Len(keypairs) : Position(t, pubkey(keypairs[j])) = 0
    THEN [panic |-> TRUE, tx |-> t]
    ELSE LET cleared == IF recent_blockhash # t.recent_blockhash
                        THEN [i \in 1..Len(t.signatures) |-> DefaultSignature]
                        ELSE t.signatures
             Signing(i) == {j \in 1..Len(keypairs) : Position(t, pubkey(keypairs[j])) = i}
         IN [panic |-> FALSE,
             tx |-> [t EXCEPT !.recent_blockhash = recent_blockhash,
                              !.signatures =
                                  [i \in 1..Len(t.signatures) |->
                                      IF Signing(i) # {}
                                      THEN Sign(keypairs[CHOOSE j \in Signing(i) : TRUE],
                                                recent_blockhash)
                                      ELSE cleared[i]]]]

\* a signature slot holds the valid signature of its key over the message
SignedBy(t, pk) ==
    \E i \in 1..Len(t.signer_keys) :
        /\ t.signer_keys[i] = pk
        /\ t.signatures[i] = [by |-> pk, over |-> t.recent_blockhash]

IsFullySigned(t) ==
    /\ Len(t.signatures) = Len(t.signer_keys)
    /\ \A i \in 1..Len(t.signer_keys) : SignedBy(t, t.signer_keys[i])

\* LiteSVM::send_transaction : the replies the runtime can give.  A
\* transaction lacking a required signature is always rejected; a fully
\* signed one is accepted or rejected by the program, depending on the ledger.
send_transaction(t) ==
    IF ~IsFullySigned(t)
    THEN {Err("SubmissionError", "SignatureFailure")}
    ELSE {Ok, Err("SubmissionError", "InstructionError")}

(* ------------------------------- state --------------------------------- *)
VARIABLES
    self,           \* the Approve struct: payer, delegate, source, amount,
                    \* signers, owner, token_program_id
    svm,            \* the borrowed runtime: its latest block hash and the
                    \* transactions it was handed
    pc,             \* lifecycle of the builder value and position inside send
    payer_pk, program_id, authority, signing_keys, signer_keys,
    ix, block_hash, tx,      \* locals of send
    result,         \* what send returned
    nconfig,        \* number of configuration calls made
    last_setter,    \* history: the last owner / multisig call and its arguments
    prev_setter,    \* history: the owner / multisig call before the last one
    args0,          \* history: the arguments given to new
    enc_args,       \* history: the arguments handed to approve
    enc_reply,      \* history: what approve answered
    reply,          \* history: what send_transaction answered
    log             \* history: collaborator calls made by send, in order

locals == <<payer_pk, program_id, authority, signing_keys, signer_keys, ix, block_hash, tx>>
history == <<args0, enc_args, enc_reply, reply, log>>
setters == <<last_setter, prev_setter>>
vars == <<self, svm, pc, locals, result, nconfig, setters, history>>
NoSetter == [kind |-> "new", who |-> None, set |-> <<>>]

(* ------------------------------ builder -------------------------------- *)
\* variant: construction leaves the signer collection empty
new_without_signer(p, d, s, a) ==
    [payer |-> p, delegate |-> d, source |-> s, token_program_id |-> None,
     amount |-> a, owner |-> None, signers |-> <<>>]

\* Approve::new
new(p, d, s, a) ==
    [payer |-> p, delegate |-> d, source |-> s, token_program_id |-> None,
     amount |-> a, owner |-> None, signers |-> <<p>>]

\* variant: the program id lands in the owner field
token_program_id_as_owner(b, id) == [b EXCEPT !.owner = id]

\* Approve::token_program_id
token_program_id(b, id) == [b EXCEPT !.token_program_id = id]

\* Approve::owner
owner(b, k) == [b EXCEPT !.owner = pubkey(k), !.signers = <<k>>]

\* variant: the new signers are added to the ones already held
multisig_merging(b, m, ss) == [b EXCEPT !.owner = m, !.signers = b.signers \o ss]

\* variant: an empty slice leaves the signers already held in place
multisig_keeping(b, m, ss) ==
    [b EXCEPT !.owner = m, !.signers = IF ss = <<>> THEN b.signers ELSE ss]

\* Approve::multisig
multisig(b, m, ss) == [b EXCEPT !.owner = m, !.signers = ss]

\* Option::unwrap_or
unwrap_or(opt, default) == IF opt = None THEN default ELSE opt

\* Signers::pubkeys : the identity of every keypair, in order
pubkeys(ks) == [i \in 1..Len(ks) |-> pubkey(ks[i])]

\* variant: source and delegate change places
approve_args_swapped(b, pid, auth, skeys) ==
    [program_id |-> pid, source |-> b.delegate, delegate |-> b.source,
     authority |-> auth, signer_keys |-> skeys, amount |-> b.amount]

\* the arguments send hands to approve
approve_args(b, pid, auth, skeys) ==
    [program_id |-> pid, source |-> b.source, delegate |-> b.delegate,
     authority |-> auth, signer_keys |-> skeys, amount |-> b.amount]

\* variant: the encoder's error is ignored
after_approve_unchecked(r) == "encoded"

\* the `?` after approve: an encoder error leaves send at once
after_approve(r) == IF r.res.kind = "Ok" THEN "encoded" ELSE "done"

\* the keypairs and block hash of the first signing pass
first_pass(b, hash) == [keypairs |-> <<b.payer>>, hash |-> hash]

\* variant: the second pass signs with nobody
second_pass_nobody(b, hash) == [keypairs |-> <<>>, hash |-> hash]

\* variant: the second pass signs over another block hash
second_pass_rehashed(b, hash) ==
    [keypairs |-> b.signers, hash |-> CHOOSE h \in Hashes : h # hash]

\* the keypairs and block hash of the second signing pass
second_pass(b, hash) == [keypairs |-> b.signers, hash |-> hash]

\* variant: the runtime's rejection is dropped
send_result_swallowed(r) == Ok

\* the `?` after send_transaction followed by Ok(())
send_result(r) == IF r.kind = "Ok" THEN Ok ELSE r

\* variant: send leaves the builder usable
after_send_reusable == "unsent"

\* send takes the builder by value: once called, the value is gone
after_send == "done"

Init ==
    /\ \E p \in Payers, d \in Delegates, s \in Sources, a \in Amounts :
          /\ self = new(p, d, s, a)
          /\ args0 = [payer |-> p, delegate |-> d, source |-> s, amount |-> a]
    /\ \E h \in Hashes : svm = [latest_blockhash |-> h, transactions |-> <<>>]
    /\ pc = "unsent"
    /\ payer_pk = None /\ program_id = None /\ authority = None
    /\ signing_keys = <<>> /\ signer_keys = <<>>
    /\ ix = NoIx /\ block_hash = None /\ tx = NoTx
    /\ result = Pending
    /\ nconfig = 0
    /\ last_setter = NoSetter
    /\ prev_setter = [kind |-> "new", who |-> None]
    /\ enc_args = NoArgs
    /\ enc_reply = Pending
    /\ reply = Pending
    /\ log = <<>>

Configurable == pc = "unsent" /\ nconfig < MaxConfig

TokenProgramId ==
    /\ Configurable
    /\ \E id \in ProgramIds : self' = token_program_id(self, id)
    /\ nconfig' = nconfig + 1
    /\ UNCHANGED <<svm, pc, locals, result, setters, history>>

Owner ==
    /\ Configurable
    /\ \E k \in Keypairs :
          /\ self' = owner(self, k)
          /\ last_setter' = [kind |-> "owner", who |-> k, set |-> <<>>]
    /\ prev_setter' = [kind |-> last_setter.kind, who |-> last_setter.who]
    /\ nconfig' = nconfig + 1
    /\ UNCHANGED <<svm, pc, locals, result, history>>

Multisig ==
    /\ Configurable
    /\ \E m \in MultisigIds, ss \in SignerSlices :
          /\ self' = multisig(self, m, ss)
          /\ last_setter' = [kind |-> "multisig", who |-> m, set |-> ss]
    /\ prev_setter' = [kind |-> last_setter.kind, who |-> last_setter.who]
    /\ nconfig' = nconfig + 1
    /\ UNCHANGED <<svm, pc, locals, result, history>>

\* send, lines 76-81: resolve program id, authority and signer identities
SendResolve ==
    /\ pc = "unsent"
    /\ pc' = "resolved"
    /\ payer_pk' = pubkey(self.payer)
    /\ program_id' = unwrap_or(self.token_program_id, TOKEN_ID)
    /\ authority' = unwrap_or(self.owner, payer_pk')
    /\ signing_keys' = pubkeys(self.signers)
    /\ signer_keys' = get_multisig_signers(authority', signing_keys')
    /\ UNCHANGED <<self, svm, ix, block_hash, tx, result, nconfig, setters, history>>

\* send, lines 83-90: encode the instruction, leave on an encoder error
SendEncode ==
    /\ pc = "resolved"
    /\ LET a == approve_args(self, program_id, authority, signer_keys)
           r == approve(a.program_id, a.source, a.delegate, a.authority,
                        a.signer_keys, a.amount)
       IN /\ enc_args' = a
          /\ enc_reply' = r.res
          /\ ix' = r.ix
          /\ pc' = after_approve(r)
          /\ result' = IF pc' = "done" THEN r.res ELSE result
    /\ log' = Append(log, "approve")
    /\ UNCHANGED <<self, svm, payer_pk, program_id, authority, signing_keys,
                   signer_keys, block_hash, tx, nconfig, setters, args0, reply>>

\* send, line 92
SendLatestBlockhash ==
    /\ pc = "encoded"
    /\ pc' = "hashed"
    /\ block_hash' = svm.latest_blockhash
    /\ log' = Append(log, "latest_blockhash")
    /\ UNCHANGED <<self, svm, payer_pk, program_id, authority, signing_keys,
                   signer_keys, ix, tx, result, nconfig, setters, args0,
                   enc_args, enc_reply, reply>>

\* send, line 93
SendNewWithPayer ==
    /\ pc = "hashed"
    /\ pc' = "assembled"
    /\ tx' = new_with_payer(ix, payer_pk)
    /\ log' = Append(log, "new_with_payer")
    /\ UNCHANGED <<self, svm, payer_pk, program_id, authority, signing_keys,
                   signer_keys, ix, block_hash, result, nconfig, setters,
                   args0, enc_args, enc_reply, reply>>

\* one signing pass: a panic ends send without a return value
SignPass(pass, name, next) ==
    LET r == partial_sign(tx, pass.keypairs, pass.hash)
    IN /\ tx' = r.tx
       /\ pc' = IF r.panic THEN "done" ELSE next
       /\ result' = IF r.panic THEN Err("Panic", "KeypairPubkeyMismatch") ELSE result
       /\ log' = Append(log, name)
       /\ UNCHANGED <<self, svm, payer_pk, program_id, authority, signing_keys,
                      signer_keys, ix, block_hash, nconfig, setters, args0,
                      enc_args, enc_reply, reply>>

\* send, line 94
SendSignPayer ==
    /\ pc = "assembled"
    /\ SignPass(first_pass(self, block_hash), "sign_payer", "payer_signed")

\* send, line 95
SendSignSigners ==
    /\ pc = "payer_signed"
    /\ SignPass(second_pass(self, block_hash), "sign_signers", "signed")

\* send, lines 97-99
SendSubmit ==
    /\ pc = "signed"
    /\ pc' = after_send
    /\ \E r \in send_transaction(tx) :
          /\ reply' = r
          /\ result' = send_result(r)
    /\ svm' = [svm EXCEPT !.transactions = Append(@, tx)]
    /\ log' = Append(log, "send_transaction")
    /\ UNCHANGED <<self, locals, nconfig, setters, args0, enc_args, enc_reply>>

Next ==
    \/ TokenProgramId
    \/ Owner
    \/ Multisig
    \/ SendResolve
    \/ SendEncode
    \/ SendLatestBlockhash
    \/ SendNewWithPayer
    \/ SendSignPayer
    \/ SendSignSigners
    \/ SendSubmit

Spec == Init /\ [][Next]_vars

(* ------------------------------ properties ----------------------------- *)
Submitted == {svm.transactions[i] : i \in 1..Len(svm.transactions)}

CarriesRequiredSignatures(t) ==
    /\ IsFullySigned(t)
    /\ \A i \in 1..Len(t.instructions) :
          \A pk \in RequiredSigners(t.instructions[i]) : SignedBy(t, pk)

\* C1 (as claimed): every transaction handed to send_transaction carries a
\* signature from the payer and from every identity its instruction requires
\* as a signer.
C1_NoPartiallySignedSubmitted ==
    \A t \in Submitted :
        SignedBy(t, pubkey(self.payer)) /\ CarriesRequiredSignatures(t)

\* C1 (amended): every transaction handed to send_transaction carries a
\* signature from the payer and from every keypair of the signer collection;
\* it carries every signature its instruction requires whenever the signer
\* collection is non-empty or the authority is the payer's identity, and it
\* lacks the authority's signature otherwise.
C1_SubmittedSignedByPayerAndSigners ==
    \A t \in Submitted :
        /\ SignedBy(t, pubkey(self.payer))
        /\ \A k \in Range(self.signers) : SignedBy(t, pubkey(k))
        /\ (self.signers # <<>> \/ authority = payer_pk) => CarriesRequiredSignatures(t)
        /\ (self.signers = <<>> /\ authority # payer_pk) =>
               /\ authority \in RequiredSigners(t.instructions[1])
               /\ ~SignedBy(t, authority)

C1_Witness ==
    /\ Len(svm.transactions) = 1
    /\ last_setter.kind = "multisig"
    /\ Cardinality(Range(self.signers)) >= 2
    /\ self.payer \notin Range(self.signers)
    /\ CarriesRequiredSignatures(svm.transactions[1])

\* C2 (as claimed): in every state from which send can be invoked the signer
\* collection holds at least one signer.
C2_SignersNeverEmpty ==
    pc = "unsent" => self.signers # <<>>

\* C2 (amended): in every state from which send can be invoked the signer
\* collection is empty exactly when the last owner / multisig call was
\* multisig with an empty signer slice; after new or owner it holds exactly
\* one signer.
C2_SignersEmptyOnlyAfterEmptyMultisig ==
    pc = "unsent" =>
        /\ self.signers = <<>> <=>
               (last_setter.kind = "multisig" /\ last_setter.set = <<>>)
        /\ last_setter.kind \in {"new", "owner"} => Len(self.signers) = 1

C2_Witness ==
    /\ pc = "unsent"
    /\ nconfig >= 2
    /\ last_setter.kind = "multisig"
    /\ Len(self.signers) >= 1

\* C3: the owner and signers held by the builder, and the authority and
\* signer identities send resolves and signs with, are exactly those of the
\* last owner / multisig call: multisig(M, S) gives M and S verbatim,
\* owner(X) gives X's identity and the single signer X.
C3_LastSetterWins ==
    /\ last_setter.kind = "owner" =>
          /\ self.owner = pubkey(last_setter.who)
          /\ self.signers = <<last_setter.who>>
    /\ last_setter.kind = "multisig" =>
          /\ self.owner = last_setter.who
          /\ self.signers = last_setter.set
    /\ (pc # "unsent" /\ last_setter.kind = "owner") =>
          /\ authority = pubkey(last_setter.who)
          /\ signing_keys = <<pubkey(last_setter.who)>>
    /\ (pc # "unsent" /\ last_setter.kind = "multisig") =>
          /\ authority = last_setter.who
          /\ signing_keys = pubkeys(last_setter.set)
    /\ (pc = "signed" /\ last_setter.kind # "new") =>
          \A pk \in KeypairPubkeys :
              (pk # payer_pk /\ SignedBy(tx, pk)) =>
                  \/ last_setter.kind = "owner" /\ pk = pubkey(last_setter.who)
                  \/ last_setter.kind = "multisig" /\ pk \in Range(pubkeys(last_setter.set))

C3_Witness ==
    /\ pc = "signed"
    /\ prev_setter.kind = "owner"
    /\ last_setter.kind = "multisig"
    /\ Len(last_setter.set) = 2
    /\ last_setter.set[1] = last_setter.set[2]
    /\ prev_setter.who \notin Range(last_setter.set)
    /\ prev_setter.who # self.payer
    /\ authority = last_setter.who
    /\ self.signers = last_setter.set

\* C4: a builder on which neither owner nor multisig was called resolves the
\* authority to the payer's identity and signs with the payer alone, whether
\* or not token_program_id was called.
C4_DefaultAuthorityIsPayer ==
    last_setter.kind = "new" =>
        /\ self.owner = None
        /\ self.signers = <<args0.payer>>
        /\ pc # "unsent" =>
              /\ authority = pubkey(args0.payer)
              /\ signing_keys = <<pubkey(args0.payer)>>

C4_Witness ==
    /\ pc = "resolved"
    /\ last_setter.kind = "new"
    /\ nconfig >= 1
    /\ self.token_program_id # None
    /\ authority = pubkey(args0.payer)

EmptyMultisig == last_setter.kind = "multisig" /\ last_setter.set = <<>>

\* C5 (as claimed): after multisig with an empty signer slice, send reaches
\* submission and returns a SubmissionError, never success.
C5_EmptyMultisigNeverSucceeds ==
    (EmptyMultisig /\ pc = "done") =>
        /\ result.kind = "SubmissionError"
        /\ Len(svm.transactions) = 1

\* C5 (amended): multisig with an empty signer slice is taken as given; the
\* following send submits exactly when the encoder accepts, returns the
\* runtime's signature failure whenever the named owner is not the payer's
\* identity, and can succeed only when the named owner is the payer's
\* identity; when the encoder rejects it returns the encoder's error without
\* submitting.
C5_EmptyMultisigOutcome ==
    EmptyMultisig =>
        /\ self.signers = <<>>
        /\ pc = "done" =>
              /\ result.kind \in {"Ok", "EncodingError", "SubmissionError"}
              /\ result.kind = "EncodingError" <=> svm.transactions = <<>>
              /\ result.kind = "Ok" => last_setter.who = payer_pk
              /\ (last_setter.who # payer_pk /\ enc_reply.kind = "Ok") =>
                     result = Err("SubmissionError", "SignatureFailure")

C5_Witness ==
    /\ EmptyMultisig
    /\ pc = "done"
    /\ last_setter.who # payer_pk
    /\ Len(svm.transactions) = 1
    /\ result = Err("SubmissionError", "SignatureFailure")

\* C6: when the encoder rejects, send returns the encoder's error at once:
\* the block hash was never requested, no transaction was assembled or
\* signed, and nothing was submitted.
C6_EncodingErrorAborts ==
    enc_reply.kind = "EncodingError" =>
        /\ pc = "done"
        /\ result = enc_reply
        /\ log = <<"approve">>
        /\ block_hash = None
        /\ tx = NoTx
        /\ svm.transactions = <<>>
        /\ reply = Pending

C6_Witness ==
    /\ pc = "done"
    /\ enc_reply.kind = "EncodingError"
    /\ self.token_program_id = "OTHER"
    /\ result = enc_reply

\* C7: send returns success exactly when the encoder and the runtime both
\* accepted; a rejection by the runtime is returned as reported, and the
\* runtime is handed at most one transaction per send.
C7_SuccessIffBothAccept ==
    /\ pc = "done" =>
          (result.kind = "Ok" <=> (enc_reply.kind = "Ok" /\ reply.kind = "Ok"))
    /\ reply.kind \notin {"pending", "Ok"} => result = reply
    /\ Len(svm.transactions) <= 1
    /\ reply # Pending <=> Len(svm.transactions) = 1
    /\ Cardinality({i \in 1..Len(log) : log[i] = "send_transaction"}) <= 1

C7_Witness ==
    /\ pc = "done"
    /\ reply = Err("SubmissionError", "InstructionError")
    /\ result = reply
    /\ Len(svm.transactions) = 1

\* C8: once send has been invoked the builder is never configured again and
\* never returns to the unsent state, nothing happens after send returned,
\* and the runtime is handed at most one transaction.
C8_SingleUse ==
    [][ /\ pc # "unsent" =>
              /\ self' = self
              /\ nconfig' = nconfig
              /\ setters' = setters
              /\ pc' # "unsent"
        /\ pc = "done" => UNCHANGED vars
        /\ Len(svm'.transactions) <= 1 ]_vars

C8_Witness ==
    /\ pc = "done"
    /\ nconfig >= 1
    /\ Len(svm.transactions) = 1

SendOrder ==
    <<"approve", "latest_blockhash", "new_with_payer", "sign_payer",
      "sign_signers", "send_transaction">>

IsPrefix(s, t) == Len(s) <= Len(t) /\ s = SubSeq(t, 1, Len(s))

\* C10: the collaborator calls of one send happen in the order encode, block
\* hash (once), assemble with the payer as fee payer, payer signs, signers
\* sign, submit; the signers sign over the block hash the payer signed over,
\* so the payer's signature is still valid on the transaction submitted.
C10_StepOrderKeepsPayerSignature ==
    /\ IsPrefix(log, SendOrder)
    /\ pc \in {"payer_signed", "signed"} =>
          /\ SignedBy(tx, payer_pk)
          /\ tx.recent_blockhash = block_hash
          /\ block_hash = svm.latest_blockhash
    /\ \A t \in Submitted :
          /\ log = SendOrder
          /\ t = tx
          /\ Len(t.instructions) = 1 /\ t.instructions[1] = ix
          /\ t.signer_keys[1] = payer_pk
          /\ t.recent_blockhash = svm.latest_blockhash
          /\ SignedBy(t, payer_pk)

C10_Witness ==
    /\ pc = "done"
    /\ log = SendOrder
    /\ self.signers # <<>>
    /\ self.payer \notin Range(self.signers)
    /\ svm.latest_blockhash # DefaultHash
    /\ SignedBy(svm.transactions[1], payer_pk)
    /\ SignedBy(svm.transactions[1], pubkey(self.signers[1]))

====
